---- MODULE Spec2Model ----
(***************************************************************************)
(* A model of docker-tag-enhancer (src/src/run.py): the version parser,    *)
(* the serializer, the comparator, max_version and the module-level script *)
(* that groups the source tags and computes the floating tags.             *)
(*                                                                         *)
(* A Python str is a sequence of one-character strings.  Python's None in  *)
(* a field of a parsed version is the empty sequence: every group of the   *)
(* version regex needs at least one character, so no field is ever the     *)
(* empty string, and the code only tests the fields for truthiness and     *)
(* equality.                                                               *)
(***************************************************************************)
EXTENDS Integers, Sequences, FiniteSets, TLC

\* ------------------------------------------------------------------ text

None == <<>>

NL == "\n"

Digits == {"0", "1", "2", "3", "4", "5", "6", "7", "8", "9"}

DigitValue ==
    ("0" :> 0) @@ ("1" :> 1) @@ ("2" :> 2) @@ ("3" :> 3) @@ ("4" :> 4) @@
    ("5" :> 5) @@ ("6" :> 6) @@ ("7" :> 7) @@ ("8" :> 8) @@ ("9" :> 9)

\* Python truthiness of a str-or-None field.
Truthy(x) == x # None

RECURSIVE NatOf(_, _)
NatOf(ds, acc) ==
    IF ds = <<>> THEN acc ELSE NatOf(Tail(ds), 10 * acc + DigitValue[Head(ds)])

\* int(s) for the texts the script passes: digits, optionally signed.
int(s) ==
    IF Head(s) = "-" THEN 0 - NatOf(Tail(s), 0) ELSE NatOf(s, 0)

\* ------------------------------------------------------------ the regex
\* Positions are 1-based; an operator that matches at position i returns
\* the position after the match, or 0 when there is no match.

RECURSIVE DigitRunEnd(_, _)
\* \d* is greedy: it runs to the first non-digit.
DigitRunEnd(s, i) ==
    IF i <= Len(s) /\ s[i] \in Digits THEN DigitRunEnd(s, i + 1) ELSE i

\* (0|[1-9]\d*) at i.  Everything that follows a number in the pattern is
\* a '.', a '-' or the end, so giving back digits never helps a match.
NumEnd(s, i) ==
    IF i = 0 \/ i > Len(s) \/ s[i] \notin Digits THEN 0
    ELSE IF s[i] = "0" THEN i + 1
    ELSE DigitRunEnd(s, i + 1)

\* A literal at i.
LitEnd(s, i, lit) ==
    IF i = 0 \/ i + Len(lit) - 1 > Len(s) THEN 0
    ELSE IF SubSeq(s, i, i + Len(lit) - 1) = lit THEN i + Len(lit)
    ELSE 0

RECURSIVE DotRunEnd(_, _)
\* .* is greedy and '.' matches anything but a newline.
DotRunEnd(s, i) ==
    IF i <= Len(s) /\ s[i] # NL THEN DotRunEnd(s, i + 1) ELSE i

\* $ at i: the end of the text, or just before a newline that ends it.
AtEnd(s, i) ==
    i = Len(s) + 1 \/ (i = Len(s) /\ s[i] = NL)

\* (?P<rest>-.*)?$ at i.
RestMatch(s, i) ==
    IF i = 0 THEN [ok |-> FALSE, rest |-> None]
    ELSE IF i <= Len(s) /\ s[i] = "-" /\ AtEnd(s, DotRunEnd(s, i + 1))
    THEN [ok |-> TRUE, rest |-> SubSeq(s, i, DotRunEnd(s, i + 1) - 1)]
    ELSE [ok |-> AtEnd(s, i), rest |-> None]

\* The numeric core with n components, n in 1..3:
\* major(?:\.minor(?:\.patch)?)?
CoreMatch(s, n) ==
    LET e1 == NumEnd(s, 1)
        e2 == NumEnd(s, LitEnd(s, e1, <<".">>))
        e3 == NumEnd(s, LitEnd(s, e2, <<".">>))
    IN  IF n = 1 THEN [end |-> e1, major |-> (IF e1 = 0 THEN None ELSE SubSeq(s, 1, e1 - 1)),
                       minor |-> None, patch |-> None]
        ELSE IF n = 2 THEN
            [end |-> e2, major |-> (IF e2 = 0 THEN None ELSE SubSeq(s, 1, e1 - 1)),
             minor |-> (IF e2 = 0 THEN None ELSE SubSeq(s, e1 + 1, e2 - 1)), patch |-> None]
        ELSE
            [end |-> e3, major |-> (IF e3 = 0 THEN None ELSE SubSeq(s, 1, e1 - 1)),
             minor |-> (IF e3 = 0 THEN None ELSE SubSeq(s, e1 + 1, e2 - 1)),
             patch |-> (IF e3 = 0 THEN None ELSE SubSeq(s, e2 + 1, e3 - 1))]

\* The modifier block at i, alternative m in the order the regex tries them:
\*   1: -rc<rc>.ce.<ce>   2: -ce.<ce>   3: -rc<rc2>   4: no modifier
ModMatch(s, i, m) ==
    LET r0 == LitEnd(s, i, <<"-", "r", "c">>)
        r1 == NumEnd(s, r0)
        c0 == LitEnd(s, LitEnd(s, r1, <<".">>), <<"c", "e", ".">>)
        c1 == NumEnd(s, c0)
        d0 == LitEnd(s, i, <<"-", "c", "e", ".">>)
        d1 == NumEnd(s, d0)
    IN  IF i = 0 THEN [end |-> 0, rc |-> None, ce |-> None, rc2 |-> None]
        ELSE IF m = 1 THEN
            [end |-> c1, rc |-> (IF c1 = 0 THEN None ELSE SubSeq(s, r0, r1 - 1)),
             ce |-> (IF c1 = 0 THEN None ELSE SubSeq(s, c0, c1 - 1)), rc2 |-> None]
        ELSE IF m = 2 THEN
            [end |-> d1, rc |-> None,
             ce |-> (IF d1 = 0 THEN None ELSE SubSeq(s, d0, d1 - 1)), rc2 |-> None]
        ELSE IF m = 3 THEN
            [end |-> r1, rc |-> None, ce |-> None,
             rc2 |-> (IF r1 = 0 THEN None ELSE SubSeq(s, r0, r1 - 1))]
        ELSE [end |-> i, rc |-> None, ce |-> None, rc2 |-> None]

\* The order in which the backtracking matcher tries the optional parts:
\* greedy components first (3, 2, 1), and for each the modifier alternatives.
Attempts ==
    << <<3, 1>>, <<3, 2>>, <<3, 3>>, <<3, 4>>,
       <<2, 1>>, <<2, 2>>, <<2, 3>>, <<2, 4>>,
       <<1, 1>>, <<1, 2>>, <<1, 3>>, <<1, 4>> >>

\* One attempt of re.search: the groupdict when it matches.
Attempt(s, k) ==
    LET core == CoreMatch(s, Attempts[k][1])
        mod  == ModMatch(s, core.end, Attempts[k][2])
        tl   == RestMatch(s, mod.end)
    IN  [ok |-> tl.ok,
         groups |-> [major |-> core.major, minor |-> core.minor, patch |-> core.patch,
                     rc |-> mod.rc, ce |-> mod.ce, rc2 |-> mod.rc2, rest |-> tl.rest]]

\* parse_version's None.  It is falsy, like None; every match has a major.
NoVersion ==
    [major |-> None, minor |-> None, patch |-> None, rc |-> None, ce |-> None,
     rest |-> None]

\* not v
Absent(v) == v = NoVersion

\* The first attempt that matches, 0 when none does (m is None).
FirstMatch(s) ==
    IF \A k \in DOMAIN Attempts : ~Attempt(s, k).ok THEN 0
    ELSE CHOOSE k \in DOMAIN Attempts :
            /\ Attempt(s, k).ok
            /\ \A j \in 1..(k - 1) : ~Attempt(s, j).ok

\* Lines 185-189: rc2 replaces rc when it matched, and is deleted.
GroupDict(groups) ==
    [major |-> groups.major, minor |-> groups.minor, patch |-> groups.patch,
     rc |-> (IF Truthy(groups.rc2) THEN groups.rc2 ELSE groups.rc),
     ce |-> groups.ce, rest |-> groups.rest]

MatchOf(s, k) ==
    IF k = 0 THEN NoVersion ELSE GroupDict(Attempt(s, k).groups)

parse_version(s) == MatchOf(s, FirstMatch(s))

\* 'k' in v and v[k]
Has(v, k) == k \in DOMAIN v /\ Truthy(v[k])

\* A serializer that writes the ce marker before the rc marker.
str_version_ce_first(v) ==
    v.major
    \o (IF Truthy(v.minor) THEN <<".">> \o v.minor ELSE <<>>)
    \o (IF Truthy(v.patch) THEN <<".">> \o v.patch ELSE <<>>)
    \o (IF Has(v, "rc") /\ Has(v, "ce")
        THEN <<"-", "c", "e", ".">> \o v.ce \o <<".", "r", "c">> \o v.rc ELSE <<>>)
    \o (IF Has(v, "rc") /\ ~Has(v, "ce") THEN <<"-", "r", "c">> \o v.rc ELSE <<>>)
    \o (IF ~Has(v, "rc") /\ Has(v, "ce") THEN <<"-", "c", "e", ".">> \o v.ce ELSE <<>>)
    \o (IF Has(v, "rest") THEN v.rest ELSE <<>>)

str_version(v) ==
    v.major
    \o (IF Truthy(v.minor) THEN <<".">> \o v.minor ELSE <<>>)
    \o (IF Truthy(v.patch) THEN <<".">> \o v.patch ELSE <<>>)
    \o (IF Has(v, "rc") /\ Has(v, "ce")
        THEN <<"-", "r", "c">> \o v.rc \o <<".", "c", "e", ".">> \o v.ce ELSE <<>>)
    \o (IF Has(v, "rc") /\ ~Has(v, "ce") THEN <<"-", "r", "c">> \o v.rc ELSE <<>>)
    \o (IF ~Has(v, "rc") /\ Has(v, "ce") THEN <<"-", "c", "e", ".">> \o v.ce ELSE <<>>)
    \o (IF Has(v, "rest") THEN v.rest ELSE <<>>)

\* ------------------------------------------------------ compare_version
\* What a call yields: a return value, or the exception it raised.
Return(x) == [exc |-> FALSE, ret |-> x]

Raise(x) == [exc |-> TRUE, ret |-> x]

\* A guard that looks at rest only and forgets the ce presence.
CannotCompareRestOnly(v1, v2) ==
    "rest" \in DOMAIN v1 /\ "rest" \in DOMAIN v2 /\ ~(v1.rest = v2.rest)

\* The guard of lines 210-215: the two versions cannot be compared.
CannotCompare(v1, v2) ==
    \/ ("rest" \in DOMAIN v1 /\ "rest" \in DOMAIN v2 /\ ~(v1.rest = v2.rest))
    \/ ("ce" \in DOMAIN v1 /\ "ce" \notin DOMAIN v2 /\ Truthy(v1.ce))
    \/ ("ce" \notin DOMAIN v1 /\ "ce" \in DOMAIN v2 /\ Truthy(v2.ce))
    \/ ("ce" \in DOMAIN v1 /\ "ce" \in DOMAIN v2 /\ Truthy(v1.ce) /\ ~Truthy(v2.ce))
    \/ ("ce" \in DOMAIN v1 /\ "ce" \in DOMAIN v2 /\ ~Truthy(v1.ce) /\ Truthy(v2.ce))

\* int(a) < int(b): -1, int(a) > int(b): 1, otherwise 0 (fall through).
CompareInt(a, b) ==
    IF int(a) < int(b) THEN -1 ELSE IF int(a) > int(b) THEN 1 ELSE 0

CompareMajor(v1, v2) == CompareInt(v1.major, v2.major)

\* A minor comparison whose two one-sided branches both answer -1.
CompareMinorLopsided(v1, v2) ==
    IF Truthy(v1.minor) /\ Truthy(v2.minor) THEN CompareInt(v1.minor, v2.minor)
    ELSE IF Truthy(v1.minor) /\ ~Truthy(v2.minor) THEN -1
    ELSE IF ~Truthy(v1.minor) /\ Truthy(v2.minor) THEN -1
    ELSE 0

\* Lines 222-230: a version without a minor ranks above one with a minor.
CompareMinor(v1, v2) ==
    IF Truthy(v1.minor) /\ Truthy(v2.minor) THEN CompareInt(v1.minor, v2.minor)
    ELSE IF Truthy(v1.minor) /\ ~Truthy(v2.minor) THEN -1
    ELSE IF ~Truthy(v1.minor) /\ Truthy(v2.minor) THEN 1
    ELSE 0

\* A patch comparison that ranks the version with a patch above.
ComparePatchInverse(v1, v2) ==
    IF Truthy(v1.patch) /\ Truthy(v2.patch) THEN CompareInt(v1.patch, v2.patch)
    ELSE IF Truthy(v1.patch) /\ ~Truthy(v2.patch) THEN 1
    ELSE IF ~Truthy(v1.patch) /\ Truthy(v2.patch) THEN -1
    ELSE 0

\* Lines 232-240.
ComparePatch(v1, v2) ==
    IF Truthy(v1.patch) /\ Truthy(v2.patch) THEN CompareInt(v1.patch, v2.patch)
    ELSE IF Truthy(v1.patch) /\ ~Truthy(v2.patch) THEN -1
    ELSE IF ~Truthy(v1.patch) /\ Truthy(v2.patch) THEN 1
    ELSE 0

RECURSIVE CompareText(_, _)
\* a < b and a > b on str: character by character, a prefix is smaller.
CompareText(a, b) ==
    IF a = <<>> /\ b = <<>> THEN 0
    ELSE IF a = <<>> THEN -1
    ELSE IF b = <<>> THEN 1
    ELSE IF DigitValue[Head(a)] < DigitValue[Head(b)] THEN -1
    ELSE IF DigitValue[Head(a)] > DigitValue[Head(b)] THEN 1
    ELSE CompareText(Tail(a), Tail(b))

\* An rc comparison that forgets int() and compares the texts.
CompareRcText(v1, v2) ==
    IF Truthy(v1.rc) /\ Truthy(v2.rc) THEN CompareText(v1.rc, v2.rc)
    ELSE IF Truthy(v1.rc) /\ ~Truthy(v2.rc) THEN -1
    ELSE IF ~Truthy(v1.rc) /\ Truthy(v2.rc) THEN 1
    ELSE 0

\* Lines 242-250: a version without an rc ranks above a release candidate.
CompareRc(v1, v2) ==
    IF Truthy(v1.rc) /\ Truthy(v2.rc) THEN CompareInt(v1.rc, v2.rc)
    ELSE IF Truthy(v1.rc) /\ ~Truthy(v2.rc) THEN -1
    ELSE IF ~Truthy(v1.rc) /\ Truthy(v2.rc) THEN 1
    ELSE 0

\* A ce comparison that never tells two versions apart.
CompareCeNever(v1, v2) == 0

\* Lines 252-256: the ce numbers count only when both versions have one.
CompareCe(v1, v2) ==
    IF Has(v1, "ce") /\ Has(v2, "ce") THEN CompareInt(v1.ce, v2.ce) ELSE 0

\* A comparison that looks at the rc before the minor and the patch.
compare_version_rc_first(v1, v2) ==
    IF Absent(v1) /\ Absent(v2) THEN Return(0)
    ELSE IF Absent(v1) THEN Return(-1)
    ELSE IF Absent(v2) THEN Return(1)
    ELSE IF CannotCompare(v1, v2) THEN Raise(0)
    ELSE IF CompareMajor(v1, v2) # 0 THEN Return(CompareMajor(v1, v2))
    ELSE IF CompareRc(v1, v2) # 0 THEN Return(CompareRc(v1, v2))
    ELSE IF CompareMinor(v1, v2) # 0 THEN Return(CompareMinor(v1, v2))
    ELSE IF ComparePatch(v1, v2) # 0 THEN Return(ComparePatch(v1, v2))
    ELSE Return(CompareCe(v1, v2))

\* The script reads no specificity policy: args has no such option
\* (lines 20-27), and the comparison is the same whatever a caller sets.
compare_version(v1, v2) ==
    IF Absent(v1) /\ Absent(v2) THEN Return(0)
    ELSE IF Absent(v1) THEN Return(-1)
    ELSE IF Absent(v2) THEN Return(1)
    ELSE IF CannotCompare(v1, v2) THEN Raise(0)
    ELSE IF CompareMajor(v1, v2) # 0 THEN Return(CompareMajor(v1, v2))
    ELSE IF CompareMinor(v1, v2) # 0 THEN Return(CompareMinor(v1, v2))
    ELSE IF ComparePatch(v1, v2) # 0 THEN Return(ComparePatch(v1, v2))
    ELSE IF CompareRc(v1, v2) # 0 THEN Return(CompareRc(v1, v2))
    ELSE Return(CompareCe(v1, v2))

RECURSIVE MaxLoop(_, _)
\* The loop of max_version; an exception of compare_version ends it.
MaxLoop(versions, latest) ==
    IF versions = <<>> THEN Return(latest)
    ELSE IF Absent(latest) THEN MaxLoop(Tail(versions), Head(versions))
    ELSE IF compare_version(Head(versions), latest).exc THEN Raise(NoVersion)
    ELSE IF compare_version(Head(versions), latest).ret > 0
         THEN MaxLoop(Tail(versions), Head(versions))
    ELSE MaxLoop(Tail(versions), latest)

\* A max_version that never replaces its first candidate.
max_version_first(versions) ==
    IF versions = <<>> THEN Return(NoVersion) ELSE Return(Head(versions))

max_version(versions) == MaxLoop(versions, NoVersion)

\* ------------------------------------------------------------ dicts
\* A dict is the sequence of its items in insertion order.
Keys(d) == {d[i].key : i \in DOMAIN d}

\* d[k].append(x) on a defaultdict(list)
AppendTo(d, k, x) ==
    IF k \in Keys(d)
    THEN [i \in DOMAIN d |->
            IF d[i].key = k THEN [key |-> k, value |-> Append(d[i].value, x)] ELSE d[i]]
    ELSE Append(d, [key |-> k, value |-> <<x>>])

\* re.search(pattern, t) for a pattern of literal characters and '.',
\* which matches any character but a newline
Search(pattern, t) ==
    \E i \in 1..(Len(t) - Len(pattern) + 1) :
        \A j \in DOMAIN pattern :
            IF pattern[j] = "." THEN t[i + j - 1] # NL ELSE t[i + j - 1] = pattern[j]

\* ------------------------------------------------------------ inputs

\* The most tags a registry lists in one run.
MaxTags == 4

\* The most dot-separated components of a text handed to parse_version.
MaxComponents == 4

\* The most attempts of one copy command that a run is followed through.
MaxAttempts == 2

Alpine == <<"-", "a", "l", "p", "i", "n", "e">>

\* The tags of the source repositories.
RepoPlain ==
    {<<"1", "4", ".", "1", "0", ".", "2">>,
     <<"1", "4", ".", "1", "0", ".", "3">>,
     <<"1", "4", ".", "1", "1", ".", "1">>,
     <<"1", "3", ".", "1", "4", ".", "0">>,
     <<"1", "4">>,
     <<"l", "a", "t", "e", "s", "t">>}

RepoCandidates ==
    {<<"1", "4", ".", "1", "0", ".", "0">>,
     <<"1", "4", ".", "1", "0", ".", "1", "-", "r", "c", "1">>,
     <<"1", "4", ".", "1", "0", ".", "1", "-", "r", "c", "2">>,
     <<"1", "4", ".", "1", "0", ".", "1">>,
     <<"1", "4", ".", "1", "0", "-", "r", "c", "1">>,
     <<"1", "4", ".", "1", "0", ".", "1", "-", "r", "c", "1", "0">>}

RepoEditions ==
    {<<"1", "-", "c", "e", ".", "5">>,
     <<"1", "-", "c", "e">>,
     <<"1", "-", "c", "e", ".", "1", "0">>,
     <<"1", ".", "0", "-", "c", "e", ".", "5">>,
     <<"1", "-", "r", "c", "1", ".", "c", "e", ".", "5">>,
     <<"1", ".", "0">> \o Alpine}

\* Tags that carry a prefix and a suffix around the version, and a tag
\* without a digest.
RepoPrefixed ==
    {<<"v", "1", "4", ".", "1", "0", ".", "2">> \o Alpine,
     <<"v", "1", "4", ".", "1", "0", ".", "3">> \o Alpine,
     <<"1", "4", ".", "1", "0", ".", "2">> \o Alpine,
     <<"1", "2", ".", "0", ".", "0">>}

Repos == {RepoPlain, RepoCandidates, RepoEditions, RepoPrefixed}

\* Tags the registry lists without any image digest.
Undigested == {<<"1", "2", ".", "0", ".", "0">>}

\* The images of a listed tag: one image, whose digest (when it has one)
\* is named after the tag.
ImagesOf(name) ==
    IF name \in Undigested THEN <<[architecture |-> "amd64"]>>
    ELSE <<[architecture |-> "amd64", digest |-> name]>>

\* The values of --filter: none, or a literal pattern.
Filters == {None, <<"1", "4", ".", "1", "0">>, <<"r", "c">>}

\* The command line with no option set.  dry_run, prefix, suffix and
\* inverse_specificity_order are no options of the parser (lines 20-27):
\* they are attributes the tests set on args.
DefaultArgs ==
    [filter |-> None, no_copy |-> FALSE, only_new_tags |-> FALSE, dry_run |-> FALSE,
     prefix |-> None, suffix |-> None, inverse_specificity_order |-> FALSE]

\* The command lines of a run.
RunArgs ==
    {[DefaultArgs EXCEPT !.filter = f] : f \in Filters}
    \cup {[DefaultArgs EXCEPT !.no_copy = TRUE],
          [DefaultArgs EXCEPT !.only_new_tags = TRUE],
          [DefaultArgs EXCEPT !.dry_run = TRUE],
          [DefaultArgs EXCEPT !.prefix = <<"v">>, !.suffix = Alpine]}

\* The args of a call of the version functions on their own.
VersionArgs ==
    {[DefaultArgs EXCEPT !.inverse_specificity_order = b] : b \in BOOLEAN}

RECURSIVE Listings(_, _)
\* The lists of at most n distinct tags of a repository, in any order.
Listings(repo, n) ==
    IF n = 0 THEN {<<>>}
    ELSE LET shorter == Listings(repo, n - 1)
         IN  shorter \cup
             UNION {{Append(l, t) : t \in repo \ {l[i] : i \in DOMAIN l}} :
                    l \in {x \in shorter : Len(x) = n - 1}}

\* The texts handed to parse_version and compare_version on their own.
MajorTexts == {<<"1">>, <<"2">>}

MinorTexts == {<<"2">>, <<"1", "0">>}

PatchTexts == {<<"0">>, <<"2">>}

BuildTexts == {<<"4">>}

RECURSIVE Cores(_)
\* The numeric cores with exactly n components.
Cores(n) ==
    IF n = 1 THEN MajorTexts
    ELSE {c \o <<".">> \o x :
            c \in Cores(n - 1),
            x \in (IF n = 2 THEN MinorTexts ELSE IF n = 3 THEN PatchTexts ELSE BuildTexts)}

ModifierTexts ==
    {<<>>,
     <<"-", "r", "c", "2">>,
     <<"-", "r", "c", "1", "0">>,
     <<"-", "c", "e", ".", "2">>,
     <<"-", "c", "e", ".", "1", "0">>,
     <<"-", "r", "c", "2", ".", "c", "e", ".", "2">>,
     <<"-", "r", "c", "1", "0", ".", "c", "e", ".", "1", "0">>,
     <<"-", "c", "e", ".", "2", ".", "r", "c", "2">>}

RestTexts == {<<>>, <<"-", "a">>}

OtherTexts ==
    {<<>>,
     <<"l", "a", "t", "e", "s", "t">>,
     <<"v", "1", ".", "2", ".", "3">>,
     <<"0", "1">>,
     <<"1", ".">>,
     <<"1", ".", "0", "2">>,
     <<"1", "-", "c", "e">>,
     <<"1", "-", "r", "c", "0", "2">>,
     <<"1", "-">>,
     <<"1", "-", "a", NL, "b">>}

VersionTexts ==
    {c \o m \o r : c \in UNION {Cores(n) : n \in 1..MaxComponents},
                   m \in ModifierTexts, r \in RestTexts}
    \cup {c \o r \o <<NL>> : c \in Cores(1) \cup Cores(2), r \in RestTexts}
    \cup OtherTexts

\* What parse_version makes of the texts: the versions, and None.
ParsedTexts == {parse_version(t) : t \in VersionTexts}

\* ------------------------------------------------------------ state

VARIABLES
    args,               \* the parsed command line
    tags,               \* the source registry's answer to tags/list
    src_tags_digests,   \* tag name -> digests
    src_tags,           \* the accepted source tags, parsed
    src_tags_grouped,   \* key -> versions
    src_tags_latest,    \* key -> tag name
    dest_tags_digests,  \* destination tag name -> digests
    dest_tags,          \* the destination's tag names that are versions
    src_tags_sorted,    \* the accepted source tags in copy order
    src_tags_latest_sorted, \* the floating keys in copy order
    stdout,             \* the lines printed from line 482 on
    loop,               \* the copy loop the script is in
    position,           \* how many items of that loop are dealt with
    command,            \* the copy command that execWithRetry is running
    copies,             \* the skopeo copy commands started, one per attempt
    exception,          \* the uncaught exception that ended the script
    pc,                 \* where the script is
    text,               \* a text handed to parse_version
    version,            \* parse_version(text)
    printed,            \* str_version(version)
    reparsed,           \* parse_version(printed)
    other,              \* a second version
    result,             \* compare_version(version, other)
    vpc,                \* which of the calls above have been made
    callable,           \* the func handed to withRetry
    behaviour,          \* what the calls of func will do, in order
    calls,              \* what the calls of func made so far have done
    slept,              \* the sleeps of withRetry and withRetryRateLimit so far
    returned,           \* what withRetry returned or raised
    rpc,                \* where withRetry is
    token_cache,        \* cache key -> token
    registry,           \* what the registry will answer, request by request
    realm,              \* what the token service of the realm will answer
    token,              \* the token of request_docker_registry
    tries,              \* its counter i
    response,           \* its r, the registry's latest answer
    log,                \* the requests sent and the tokens asked for so far
    tag_list,           \* what request_docker_registry returned or raised
    qpc                 \* where request_docker_registry is

vars ==
    <<args, tags, src_tags_digests, src_tags, src_tags_grouped, src_tags_latest,
      dest_tags_digests, dest_tags, src_tags_sorted, src_tags_latest_sorted, stdout, loop,
      position, command, copies, exception, pc, text, version, printed, reparsed, other, result, vpc,
      callable, behaviour, calls, slept, returned, rpc, token_cache, registry, realm, token,
      tries, response, log, tag_list, qpc>>

mirrorVars ==
    <<dest_tags_digests, dest_tags, src_tags_sorted, src_tags_latest_sorted, stdout, loop,
      position, command, copies>>

runVars ==
    <<tags, src_tags_digests, src_tags, src_tags_grouped, src_tags_latest, mirrorVars,
      exception, pc>>

versionVars == <<text, version, printed, reparsed, other, result, vpc>>

retryVars == <<callable, behaviour, calls, slept, returned, rpc>>

registryVars == <<token_cache, registry, realm, token, tries, response, log, tag_list, qpc>>

\* No copy command: execWithRetry is not running.
NoCommand == [src |-> None, dest |-> None]

MirrorIdle ==
    /\ dest_tags_digests = <<>>
    /\ dest_tags = <<>>
    /\ src_tags_sorted = <<>>
    /\ src_tags_latest_sorted = <<>>
    /\ stdout = <<>>
    /\ loop = "none"
    /\ position = 0
    /\ command = NoCommand
    /\ copies = <<>>

RunIdle ==
    /\ MirrorIdle
    /\ tags = <<>>
    /\ src_tags_digests = <<>>
    /\ src_tags = <<>>
    /\ src_tags_grouped = <<>>
    /\ src_tags_latest = <<>>
    /\ exception = ""
    /\ pc = "idle"

VersionIdle ==
    /\ text = None
    /\ version = NoVersion
    /\ printed = None
    /\ reparsed = NoVersion
    /\ other = NoVersion
    /\ result = Return(0)
    /\ vpc = "idle"

RetryIdle ==
    /\ callable = "none"
    /\ behaviour = <<>>
    /\ calls = <<>>
    /\ slept = <<>>
    /\ returned = Return(None)
    /\ rpc = "idle"

\* No answer: nothing has been requested.
NoAnswer == [status_code |-> 0, www_authenticate |-> "absent", body |-> "none"]

RegistryIdle ==
    /\ token_cache = <<>>
    /\ registry = <<>>
    /\ realm = NoAnswer
    /\ token = None
    /\ tries = 0
    /\ response = NoAnswer
    /\ log = <<>>
    /\ tag_list = Return(None)
    /\ qpc = "idle"

\* ------------------------------------------------- the script, lines 375-399

\* [i['digest'] for i in x['images'] if 'digest' in i]
RECURSIVE DigestsOf(_)
DigestsOf(images) ==
    IF images = <<>> THEN <<>>
    ELSE IF "digest" \in DOMAIN Head(images)
         THEN <<Head(images).digest>> \o DigestsOf(Tail(images))
    ELSE DigestsOf(Tail(images))

\* A major key that also carries the rc marker.
MajorKeyWithRc(t) ==
    t.major \o (IF Truthy(t.rc) THEN <<"-", "r", "c">> ELSE <<>>)
        \o (IF Truthy(t.ce) THEN <<"-", "c", "e">> ELSE <<>>) \o t.rest

\* Line 395: the key of the major group.
MajorKey(t) ==
    t.major \o (IF Truthy(t.ce) THEN <<"-", "c", "e">> ELSE <<>>) \o t.rest

\* A major.minor key built from the patch.
MinorKeyFromPatch(t) ==
    t.major \o <<".">> \o t.patch
        \o (IF Truthy(t.ce) THEN <<"-", "c", "e">> ELSE <<>>) \o t.rest

\* Line 398: the key of the major.minor group.
MinorKey(t) ==
    t.major \o <<".">> \o t.minor
        \o (IF Truthy(t.ce) THEN <<"-", "c", "e">> ELSE <<>>) \o t.rest

RECURSIVE GroupByMajor(_, _)
\* The loop of lines 394-395.
GroupByMajor(ts, d) ==
    IF ts = <<>> THEN d
    ELSE GroupByMajor(Tail(ts), AppendTo(d, MajorKey(Head(ts)), Head(ts)))

RECURSIVE GroupByMinor(_, _)
\* The loop of lines 396-398.
GroupByMinor(ts, d) ==
    IF ts = <<>> THEN d
    ELSE IF Truthy(Head(ts).minor)
         THEN GroupByMinor(Tail(ts), AppendTo(d, MinorKey(Head(ts)), Head(ts)))
    ELSE GroupByMinor(Tail(ts), d)

\* Lines 393-398.
group_versions(ts) == GroupByMinor(ts, GroupByMajor(ts, <<>>))

\* Every name of the answer, with digests or without.
ListedWithoutDigests(digests) == [n \in DOMAIN digests |-> digests[n].key]

RECURSIVE Listed(_)
\* Line 387: [k for k, v in src_tags_digests.items() if len(v) > 0]
Listed(digests) ==
    IF digests = <<>> THEN <<>>
    ELSE IF Len(Head(digests).value) > 0
         THEN <<Head(digests).key>> \o Listed(Tail(digests))
    ELSE Listed(Tail(digests))

\* Every name kept, parsing or not.
ParsingOrNot(names) == names

RECURSIVE Parsing(_)
\* Line 389: [t for t in src_tags if parse_version(t)]
Parsing(names) ==
    IF names = <<>> THEN <<>>
    ELSE IF ~Absent(parse_version(Head(names)))
         THEN <<Head(names)>> \o Parsing(Tail(names))
    ELSE Parsing(Tail(names))

\* Every name kept, whatever the filter.
PassingAll(names, filter) == names

RECURSIVE Passing(_, _)
\* Line 391: [t for t in src_tags if re.search(args.filter, t)]
Passing(names, filter) ==
    IF names = <<>> THEN <<>>
    ELSE IF Search(filter, Head(names))
         THEN <<Head(names)>> \o Passing(Tail(names), filter)
    ELSE Passing(Tail(names), filter)

\* Lines 387-392: the names with a digest that parse and pass the filter.
accepted_names(digests, filter) ==
    IF Truthy(filter) THEN Passing(Parsing(Listed(digests)), filter)
    ELSE Parsing(Listed(digests))

RECURSIVE ParseAll(_)
\* Line 392: [parse_version(t) for t in src_tags]
ParseAll(names) ==
    IF names = <<>> THEN <<>>
    ELSE <<parse_version(Head(names))>> \o ParseAll(Tail(names))

accepted_tags(digests, filter) == ParseAll(accepted_names(digests, filter))

\* Line 399, before str_version: the maximum of every group.
latest_versions(grouped) ==
    [i \in DOMAIN grouped |->
        [key |-> grouped[i].key, value |-> max_version(grouped[i].value)]]

Init ==
    /\ args \in RunArgs
    /\ \E repo \in Repos : \E l \in Listings(repo, MaxTags) :
          tags = [i \in DOMAIN l |-> [name |-> l[i], images |-> ImagesOf(l[i])]]
    /\ src_tags_digests = <<>>
    /\ src_tags = <<>>
    /\ src_tags_grouped = <<>>
    /\ src_tags_latest = <<>>
    /\ MirrorIdle
    /\ exception = ""
    /\ pc = "read_source"
    /\ VersionIdle
    /\ RetryIdle
    /\ RegistryIdle

\* Lines 383-392.
ReadSourceTags ==
    /\ pc = "read_source"
    /\ src_tags_digests' =
          [i \in DOMAIN tags |-> [key |-> tags[i].name, value |-> DigestsOf(tags[i].images)]]
    /\ src_tags' = accepted_tags(src_tags_digests', args.filter)
    /\ pc' = "group"
    /\ UNCHANGED <<args, tags, src_tags_grouped, src_tags_latest, mirrorVars, exception,
                   versionVars, retryVars,
                   registryVars>>

\* Lines 393-398.
GroupTags ==
    /\ pc = "group"
    /\ src_tags_grouped' = group_versions(src_tags)
    /\ pc' = "latest"
    /\ UNCHANGED <<args, tags, src_tags_digests, src_tags, src_tags_latest, mirrorVars,
                   exception, versionVars, retryVars,
                   registryVars>>

\* Some max_version call of line 399 raised.
Raised(latest) == \E i \in DOMAIN latest : latest[i].value.exc

\* Line 399: key -> str_version(max_version(group)).
StrAll(latest) ==
    [i \in DOMAIN latest |->
        [key |-> latest[i].key, value |-> str_version(latest[i].value.ret)]]

\* Line 399.  An exception of compare_version is caught nowhere: it ends
\* the script before src_tags_latest is bound.
LatestTags ==
    /\ pc = "latest"
    /\ IF Raised(latest_versions(src_tags_grouped))
       THEN /\ exception' = "Cannot compare versions"
            /\ pc' = "crashed"
            /\ UNCHANGED src_tags_latest
       ELSE /\ src_tags_latest' = StrAll(latest_versions(src_tags_grouped))
            /\ pc' = "read_dest"
            /\ UNCHANGED exception
    /\ UNCHANGED <<args, tags, src_tags_digests, src_tags, src_tags_grouped, mirrorVars,
                   versionVars, retryVars,
                   registryVars>>

\* ------------------------------------------- exec and the retry loops

\* exec's parameter input: None by default, or a text.
NoInput == [given |-> FALSE, text |-> <<>>]

Input(t) == [given |-> TRUE, text |-> t]

TooManyRequests ==
    <<"t", "o", "o", "m", "a", "n", "y", "r", "e", "q", "u", "e", "s", "t", "s">>

\* p in s, for two str
Contains(s, p) == \E i \in 1..(Len(s) - Len(p) + 1) : SubSeq(s, i, i + Len(p) - 1) = p

\* An exception: its class and its args.
Exception(class, a) == [type |-> class, args |-> a]

\* Lines 45-64, for a command that exits with run.exit_code once Popen
\* has started it (line 47).  Line 48 evaluates input.encode() before it
\* waits for the command: without an input this is None.encode().
exec(run, ignoreError, input) ==
    IF ~input.given
    THEN Raise(Exception("AttributeError",
                         <<"'NoneType' object has no attribute 'encode'">>))
    ELSE IF ~ignoreError /\ run.exit_code # 0
    THEN Raise(Exception("Exception", <<run.exit_code, run.std_out, run.std_err>>))
    ELSE Return(<<run.exit_code, run.std_out, run.std_err>>)

\* Lines 74-76: the exception has three args and the third names the limit.
RateLimited(err) == Len(err.args) = 3 /\ Contains(err.args[3], TooManyRequests)

\* Lines 67-80: what one turn of the loop of withRetryRateLimit does with
\* the outcome o of func(): return it, raise it, or sleep and go on.
withRetryRateLimit(o) ==
    IF ~o.exc THEN "return"
    ELSE IF o.ret.type = "KeyboardInterrupt" THEN "raise"
    ELSE IF RateLimited(o.ret) THEN "Rate limit reached, retrying in 15min"
    ELSE "raise"

\* A withRetry that gives up where withRetryRateLimit does.
withRetry_once(o) == withRetryRateLimit(o)

\* Lines 83-91: one turn of the loop of withRetry around withRetryRateLimit.
withRetry(o) ==
    IF withRetryRateLimit(o) = "raise" /\ o.ret.type # "KeyboardInterrupt"
    THEN "Failed, retrying in 5min"
    ELSE withRetryRateLimit(o)

\* ------------------------------------------------- the script, lines 401-494

\* d[k] for a key of the dict
Lookup(d, k) == d[CHOOSE i \in DOMAIN d : d[i].key = k].value

\* A digest the destination holds for an image that has changed since.
OldDigest == <<"o", "l", "d">>

\* A destination tag that is no version.
Stable == <<"s", "t", "a", "b", "l", "e">>

\* What the destination holds of a mirrored name whose source digests are
\* ds: 0 the same image, 1 an older image, 3 a tag without a digest.
DestImages(ds, m) ==
    IF m = 0 THEN [i \in DOMAIN ds |-> [architecture |-> "amd64", digest |-> ds[i]]]
    ELSE IF m = 1 THEN <<[architecture |-> "amd64", digest |-> OldDigest]>>
    ELSE <<[architecture |-> "amd64"]>>

RECURSIVE DestEntries(_, _, _)
\* A destination that mirrored the names (key: name, value: source digests)
\* some time ago: one name in four is missing, the others are up to date,
\* outdated or without a digest, in turn.
DestEntries(names, i, shift) ==
    IF i > Len(names) THEN <<>>
    ELSE IF (i + shift) % 4 = 2 THEN DestEntries(names, i + 1, shift)
    ELSE <<[name |-> names[i].key,
            images |-> DestImages(names[i].value, (i + shift) % 4)]>>
         \o DestEntries(names, i + 1, shift)

\* The names a mirror of the source holds: the source tags, then the
\* floating tags that are no source tag, each with the digests of its source.
MirroredNames(digests, latest) ==
    digests
    \o [i \in DOMAIN latest |->
          [key |-> latest[i].key, value |-> Lookup(digests, latest[i].value)]]

RECURSIVE Distinct(_, _)
\* The items of d whose key is not in seen and not repeated.
Distinct(d, seen) ==
    IF d = <<>> THEN <<>>
    ELSE IF Head(d).key \in seen THEN Distinct(Tail(d), seen)
    ELSE <<Head(d)>> \o Distinct(Tail(d), seen \cup {Head(d).key})

\* A destination that holds the names with the images of the source.
DestInSync(names) ==
    [i \in DOMAIN names |->
        [name |-> names[i].key, images |-> DestImages(names[i].value, 0)]]

\* The answers of the destination registry to tags/list: nothing; an aged
\* mirror of the source; a mirror of the source tags that is up to date
\* and has no floating tags of its own.  A mirror holds one tag that is no
\* version as well.
DestAnswers(digests, latest) ==
    {<<>>}
    \cup {mirror \o <<[name |-> Stable, images |-> DestImages(<<>>, 1)]>> :
            mirror \in {DestEntries(Distinct(MirroredNames(digests, latest), {}), 1, 2),
                        DestInSync(digests)}}

\* Lines 409-415.
ReadDestTags ==
    /\ pc = "read_dest"
    /\ \E answer \in DestAnswers(src_tags_digests, src_tags_latest) : tags' = answer
    /\ dest_tags_digests' =
          [i \in DOMAIN tags' |-> [key |-> tags'[i].name, value |-> DigestsOf(tags'[i].images)]]
    /\ dest_tags' = Parsing(Listed(dest_tags_digests'))
    /\ pc' = "sort"
    /\ UNCHANGED <<args, src_tags_digests, src_tags, src_tags_grouped, src_tags_latest,
                   src_tags_sorted, src_tags_latest_sorted, stdout, loop, position,
                   command, copies, exception,
                   versionVars, retryVars,
                   registryVars>>

\* A preparation that only drops the rest.
prepare_for_sort_rest_only(v) ==
    [major |-> v.major, minor |-> v.minor, patch |-> v.patch, rc |-> v.rc, ce |-> v.ce]

\* Lines 464-474: the version without its rest, an absent ce as '-1'.
prepare_for_sort(v) ==
    [major |-> v.major, minor |-> v.minor, patch |-> v.patch, rc |-> v.rc,
     ce |-> (IF Truthy(v.ce) THEN v.ce ELSE <<"-", "1">>)]

RECURSIVE InsertSorted(_, _)
\* One step of list.sort, which is stable: x goes behind the last item
\* that does not compare greater.
InsertSorted(done, x) ==
    IF done = <<>> THEN <<x>>
    ELSE IF compare_version(x.sortkey, done[Len(done)].sortkey).ret < 0
         THEN Append(InsertSorted(SubSeq(done, 1, Len(done) - 1), x), done[Len(done)])
    ELSE Append(done, x)

RECURSIVE SortKeyed(_, _)
SortKeyed(done, todo) ==
    IF todo = <<>> THEN done ELSE SortKeyed(InsertSorted(done, Head(todo)), Tail(todo))

\* A sort that leaves the prepared versions in the list.
sort_versions_prepared(ts) ==
    LET keyed == [i \in DOMAIN ts |-> [item |-> ts[i], sortkey |-> prepare_for_sort(ts[i])]]
        sorted == SortKeyed(<<>>, keyed)
    IN  [i \in DOMAIN sorted |-> sorted[i].sortkey]

\* A sort that leaves the tags as the registry listed them.
sort_versions_as_listed(ts) == ts

\* Lines 477-478.
sort_versions(ts) ==
    LET keyed == [i \in DOMAIN ts |-> [item |-> ts[i], sortkey |-> prepare_for_sort(ts[i])]]
        sorted == SortKeyed(<<>>, keyed)
    IN  [i \in DOMAIN sorted |-> sorted[i].item]

\* Lines 479-480.
sort_keys(latest) ==
    LET keyed == [i \in DOMAIN latest |->
                    [item |-> latest[i].key,
                     sortkey |-> prepare_for_sort(parse_version(latest[i].key))]]
        sorted == SortKeyed(<<>>, keyed)
    IN  [i \in DOMAIN sorted |-> sorted[i].item]

\* A printed line: what it says, and the tags it names.
Line(what, key, value) == [line |-> what, key |-> key, value |-> value]

\* Lines 482-484.
print_tags(keys, latest) ==
    <<Line("New calculated tags are:", None, None)>>
    \o [i \in DOMAIN keys |-> Line("- key -> value", keys[i], Lookup(latest, keys[i]))]

\* Lines 477-484.
SortAndPrint ==
    /\ pc = "sort"
    /\ src_tags_sorted' = sort_versions(src_tags)
    /\ src_tags_latest_sorted' = sort_keys(src_tags_latest)
    /\ stdout' = stdout \o print_tags(src_tags_latest_sorted', src_tags_latest)
    /\ pc' = "mirror"
    /\ UNCHANGED <<args, tags, src_tags_digests, src_tags, src_tags_grouped,
                   src_tags_latest, dest_tags_digests, dest_tags, loop, position,
                   command, copies, exception,
                   versionVars, retryVars,
                   registryVars>>

\* What a copy loop has done: the lines printed, the number of list items
\* dealt with, the copy command handed to execWithRetry at the next item
\* (NoCommand if the list is through), and the exception that ended the
\* loop, if any.
Io(out, n, cmd, exc) == [stdout |-> out, handled |-> n, command |-> cmd, exception |-> exc]

\* d[k] if k in d else None
DigestsAt(d, k) ==
    IF k \in Keys(d) THEN [found |-> TRUE, digests |-> Lookup(d, k)]
    ELSE [found |-> FALSE, digests |-> <<>>]

\* Lines 455-461, with dest_tag already defaulted to tag (line 425): the
\* tag is up to date, or its copy command goes to execWithRetry.
copy_if_changed(io, src_digests, dest_digests, tag, dest_tag) ==
    IF tag \notin Keys(src_digests) THEN Io(io.stdout, io.handled, NoCommand, "KeyError")
    ELSE IF DigestsAt(src_digests, tag) = DigestsAt(dest_digests, dest_tag)
    THEN Io(Append(io.stdout, Line("up to date", dest_tag, None)), io.handled + 1,
            NoCommand, "")
    ELSE Io(Append(io.stdout, Line("copy", dest_tag, tag)), io.handled,
            [src |-> tag, dest |-> dest_tag], "")

\* Lines 418-461: dest_tag = (dest_tag or tag).
mirror_image_tag(io, src_digests, dest_digests, tag, dest_tag) ==
    copy_if_changed(io, src_digests, dest_digests, tag,
                    IF Truthy(dest_tag) THEN dest_tag ELSE tag)

\* The negated test of lines 489 and 493: the tag is left alone.
skip_existing(only_new_tags, name, existing) ==
    only_new_tags /\ \E i \in DOMAIN existing : existing[i] = name

\* The loop goes on to its next item.
Running(io, items) == items # <<>> /\ io.exception = "" /\ io.command = NoCommand

Skipped(io) == Io(io.stdout, io.handled + 1, NoCommand, "")

RECURSIVE MirrorExistingLoop(_, _, _, _, _, _)
\* Lines 488-490: every accepted source tag, under its own name, up to the
\* first one that has to be copied.
MirrorExistingLoop(io, a, src_digests, dest_digests, existing, ts) ==
    IF ~Running(io, ts) THEN io
    ELSE IF skip_existing(a.only_new_tags, str_version(Head(ts)), existing)
    THEN MirrorExistingLoop(Skipped(io), a, src_digests, dest_digests, existing, Tail(ts))
    ELSE MirrorExistingLoop(
            mirror_image_tag(io, src_digests, dest_digests, str_version(Head(ts)), None),
            a, src_digests, dest_digests, existing, Tail(ts))

RECURSIVE MirrorLatestLoop(_, _, _, _, _, _, _)
\* Lines 492-494: every floating tag, from the tag it stands for, up to
\* the first one that has to be copied.
MirrorLatestLoop(io, a, src_digests, dest_digests, existing, latest, keys) ==
    IF ~Running(io, keys) THEN io
    ELSE IF skip_existing(a.only_new_tags, Head(keys), existing)
    THEN MirrorLatestLoop(Skipped(io), a, src_digests, dest_digests, existing, latest,
                          Tail(keys))
    ELSE MirrorLatestLoop(
            mirror_image_tag(io, src_digests, dest_digests, Lookup(latest, Head(keys)),
                             Head(keys)),
            a, src_digests, dest_digests, existing, latest, Tail(keys))

\* A copy switch that is never off.
copying_always(a) == TRUE

\* Line 486: if not args.no_copy
copying(a) == ~a.no_copy

\* The items of a list from the position on.
From(items, n) == SubSeq(items, n + 1, Len(items))

\* Where a copy loop has got to: it raised, it called execWithRetry, or
\* it is through and the script goes on.
Proceed(io, here, after) ==
    /\ stdout' = io.stdout
    /\ exception' = io.exception
    /\ IF io.exception # ""
       THEN pc' = "crashed" /\ UNCHANGED <<loop, position, command>>
       ELSE IF io.command # NoCommand
       THEN /\ loop' = here
            /\ position' = io.handled
            /\ command' = io.command
            /\ pc' = "copy"
       ELSE /\ loop' = "none"
            /\ position' = 0
            /\ command' = NoCommand
            /\ pc' = after

\* Lines 486-490, from the start or after a copy has returned.
MirrorExisting ==
    /\ pc = "mirror"
    /\ IF copying(args)
       THEN Proceed(MirrorExistingLoop(Io(stdout, position, NoCommand, ""), args,
                                       src_tags_digests, dest_tags_digests, dest_tags,
                                       From(src_tags_sorted, position)),
                    "mirror", "mirror_latest")
       ELSE pc' = "done" /\ UNCHANGED <<stdout, exception, loop, position, command>>
    /\ UNCHANGED <<args, tags, src_tags_digests, src_tags, src_tags_grouped,
                   src_tags_latest, dest_tags_digests, dest_tags, src_tags_sorted,
                   src_tags_latest_sorted, copies, versionVars, retryVars,
                   registryVars>>

\* Lines 492-494, from the start or after a copy has returned.
MirrorLatest ==
    /\ pc = "mirror_latest"
    /\ Proceed(MirrorLatestLoop(Io(stdout, position, NoCommand, ""), args, src_tags_digests,
                                dest_tags_digests, dest_tags, src_tags_latest,
                                From(src_tags_latest_sorted, position)),
               "mirror_latest", "done")
    /\ UNCHANGED <<args, tags, src_tags_digests, src_tags, src_tags_grouped,
                   src_tags_latest, dest_tags_digests, dest_tags, src_tags_sorted,
                   src_tags_latest_sorted, copies, versionVars, retryVars,
                   registryVars>>

\* The skopeo copy of a run: the registries work, the command exits with 0.
CopyRuns == {[exit_code |-> 0, std_out |-> <<>>, std_err |-> <<>>]}

\* Line 461, execWithRetry(cmd): one turn of the loop of withRetry around
\* exec(cmd).  Popen starts the command; if exec returns, the copy loop
\* goes on; if it raises, withRetry prints and sleeps, and the turn is
\* taken again.  KeyboardInterrupt ends the script.
ExecCopy ==
    /\ pc = "copy"
    /\ Len(copies) < MaxAttempts
    /\ copies' = Append(copies, command)
    /\ \E run \in CopyRuns :
          LET turn == withRetry(exec(run, FALSE, NoInput))
          IN  IF turn = "return"
              THEN /\ pc' = loop
                   /\ position' = position + 1
                   /\ command' = NoCommand
                   /\ UNCHANGED <<stdout, exception>>
              ELSE IF turn = "raise"
              THEN /\ pc' = "crashed"
                   /\ exception' = "KeyboardInterrupt"
                   /\ UNCHANGED <<stdout, position, command>>
              ELSE /\ stdout' = Append(stdout, Line(turn, command.dest, command.src))
                   /\ UNCHANGED <<pc, position, command, exception>>
    /\ UNCHANGED <<args, tags, src_tags_digests, src_tags, src_tags_grouped,
                   src_tags_latest, dest_tags_digests, dest_tags, src_tags_sorted,
                   src_tags_latest_sorted, loop, versionVars, retryVars,
                   registryVars>>

Next ==
    \/ ReadSourceTags
    \/ GroupTags
    \/ LatestTags
    \/ ReadDestTags
    \/ SortAndPrint
    \/ MirrorExisting
    \/ MirrorLatest
    \/ ExecCopy

Spec == Init /\ [][Next]_vars

\* ------------------------------------- the version functions on their own

VersionInit ==
    /\ args \in VersionArgs
    /\ RunIdle
    /\ text \in VersionTexts
    /\ version = NoVersion
    /\ printed = None
    /\ reparsed = NoVersion
    /\ other = NoVersion
    /\ result = Return(0)
    /\ vpc = "parse"
    /\ RetryIdle
    /\ RegistryIdle

\* version = parse_version(text)
ParseVersion ==
    /\ vpc = "parse"
    /\ version' = parse_version(text)
    /\ vpc' = "parsed"
    /\ UNCHANGED <<args, runVars, retryVars, registryVars, text, printed, reparsed, other, result>>

\* printed = str_version(version)
StrVersion ==
    /\ vpc = "parsed"
    /\ ~Absent(version)
    /\ printed' = str_version(version)
    /\ vpc' = "printed"
    /\ UNCHANGED <<args, runVars, retryVars, registryVars, text, version, reparsed, other, result>>

\* reparsed = parse_version(printed)
ReparseVersion ==
    /\ vpc = "printed"
    /\ reparsed' = parse_version(printed)
    /\ vpc' = "reparsed"
    /\ UNCHANGED <<args, runVars, retryVars, registryVars, text, version, printed, other, result>>

\* result = compare_version(version, other), other parsed from any text
CompareVersion ==
    /\ vpc = "parsed"
    /\ \E w \in ParsedTexts :
          /\ other' = w
          /\ result' = compare_version(version, w)
    /\ vpc' = "compared"
    /\ UNCHANGED <<args, runVars, retryVars, registryVars, text, version, printed, reparsed>>

VersionNext == ParseVersion \/ StrVersion \/ ReparseVersion \/ CompareVersion

SpecVersion == VersionInit /\ [][VersionNext]_vars

\* ---------------------------------------- withRetry around a func, on its own

\* The most calls of func that one withRetry is followed through.
MaxCalls == 3

\* sleep(900), line 78
RateLimitSleep == 900

\* sleep(300), line 91
FailedSleep == 300

Busy == <<"b", "u", "s", "y">>

\* What a call of func may do: return a result; raise as exec does for a
\* command that failed (three args, line 62), with or without the rate
\* limit named in std_err; raise an exception with one argument; raise
\* SystemExit; raise KeyboardInterrupt.
FuncOutcomes ==
    { Return(<<0, <<>>, <<>>>>),
      Raise(Exception("Exception", <<1, <<>>, Busy>>)),
      Raise(Exception("Exception", <<1, <<>>, Busy \o TooManyRequests>>)),
      Raise(Exception("JSONDecodeError", <<"Expecting value">>)),
      Raise(Exception("SystemExit", <<>>)),
      Raise(Exception("KeyboardInterrupt", <<>>)) }

\* What the command behind execWithRetry(cmd) may do once it is started.
CommandRuns ==
    { [exit_code |-> 0, std_out |-> <<>>, std_err |-> <<>>],
      [exit_code |-> 1, std_out |-> <<>>, std_err |-> Busy],
      [exit_code |-> 1, std_out |-> <<>>, std_err |-> Busy \o TooManyRequests] }

\* The sequences of one to n members of a set.
SeqsUpTo(S, n) == UNION {[1..k -> S] : k \in 1..n}

\* withRetry(func) for any func, and execWithRetry(cmd), lines 98-99,
\* whose func is lambda: exec(cmd).
Callables == {"func", "exec"}

Behaviours(c) ==
    IF c = "exec" THEN SeqsUpTo(CommandRuns, MaxCalls) ELSE SeqsUpTo(FuncOutcomes, MaxCalls)

\* What the call of the callable does whose behaviour is b.
Outcome(c, b) == IF c = "exec" THEN exec(b, FALSE, NoInput) ELSE b

RetryInit ==
    /\ args = DefaultArgs
    /\ RunIdle
    /\ VersionIdle
    /\ callable \in Callables
    /\ behaviour \in Behaviours(callable)
    /\ calls = <<>>
    /\ slept = <<>>
    /\ returned = Return(None)
    /\ rpc = "call"
    /\ RegistryIdle

\* Lines 85-86 and 69-70: func() is called, and lines 71-80 and 87-91
\* deal with what it does: its result is returned, KeyboardInterrupt is
\* raised again, anything else is printed and slept on.
CallFunc ==
    /\ rpc = "call"
    /\ Len(calls) < Len(behaviour)
    /\ LET o == Outcome(callable, behaviour[Len(calls) + 1])
           turn == withRetry(o)
       IN  /\ calls' = Append(calls, o)
           /\ IF turn \in {"return", "raise"}
              THEN /\ returned' = o
                   /\ rpc' = IF turn = "return" THEN "returned" ELSE "raised"
                   /\ UNCHANGED slept
              ELSE /\ slept' = Append(slept, IF turn = "Failed, retrying in 5min"
                                             THEN FailedSleep ELSE RateLimitSleep)
                   /\ rpc' = "sleep"
                   /\ UNCHANGED returned
    /\ UNCHANGED <<args, runVars, versionVars, registryVars, callable, behaviour>>

\* sleep returns, and the loop of line 68 or of line 84 takes its next turn.
Wake ==
    /\ rpc = "sleep"
    /\ rpc' = "call"
    /\ UNCHANGED <<args, runVars, versionVars, registryVars, callable, behaviour, calls, slept, returned>>

RetryNext == CallFunc \/ Wake

SpecRetry == RetryInit /\ [][RetryNext]_vars

\* The interpreter goes on: a call of func ends as its behaviour says, and
\* a sleep ends.
SpecRetryFair == SpecRetry /\ WF_vars(CallFunc) /\ WF_vars(Wake)

\* ------------------------------------ request_docker_registry, on its own

\* The most GET requests the registry is prepared to answer in one call.
MaxRequests == 3

Bearer == <<"B", "e", "a", "r", "e", "r">>

\* api + '+' + name of the call followed, and of another repository
CacheKey == <<"r", "+", "n">>

OtherKey == <<"r", "+", "m">>

CachedToken == Bearer \o <<" ", "t", "0">>

NewToken == <<"t", "1">>

\* An answer to requests.get: its status, what www_authenticate.parse
\* makes of its WWW-Authenticate header, and what its body holds.
Answer(status, header, content) ==
    [status_code |-> status, www_authenticate |-> header, body |-> content]

\* requests.get raises instead of returning a response.
Unreachable == Answer(0, "absent", "ConnectionError")

RegistryAnswers ==
    { Answer(200, "absent", "tags"),
      Answer(200, "absent", "no tags"),
      Answer(200, "absent", "not json"),
      Answer(404, "absent", "errors"),
      Answer(401, "absent", "errors"),
      Answer(401, "one challenge", "errors"),
      Answer(401, "one challenge without realm", "errors"),
      Answer(401, "two challenges", "errors"),
      Unreachable }

RealmAnswers ==
    { Answer(200, "absent", "token"),
      Answer(200, "absent", "no token"),
      Answer(403, "absent", "errors"),
      Unreachable }

TokenCaches ==
    { <<>>,
      <<[key |-> OtherKey, value |-> CachedToken]>>,
      <<[key |-> CacheKey, value |-> CachedToken]>> }

\* The tag list of the registry's body.
TagList == <<[name |-> <<"1">>, images |-> <<>>]>>

\* Lines 308-316, called without a header (line 321).
get_or_retrieve_token(cache) ==
    IF CacheKey \in Keys(cache) THEN Lookup(cache, CacheKey) ELSE None

\* token_cache[cache_key] = token
Store(cache, k, x) ==
    IF k \in Keys(cache)
    THEN [n \in DOMAIN cache |-> IF cache[n].key = k THEN [key |-> k, value |-> x] ELSE cache[n]]
    ELSE Append(cache, [key |-> k, value |-> x])

\* r.raise_for_status()
IsError(a) == a.status_code >= 400 /\ a.status_code < 600

\* What retrieve_new_token did: whether it sent its GET to the realm,
\* what it returned or raised, and the cache it leaves.
Retrieved(asked, outcome, cache) == [requested |-> asked, token |-> outcome, cache |-> cache]

\* Lines 288-305, for the header of the registry's answer and the answer
\* that the token service gives if it is asked.
retrieve_new_token(cache, header, service) ==
    IF header # "one challenge" /\ header # "one challenge without realm"
    THEN Retrieved(FALSE, Return(None), cache)
    ELSE IF header = "one challenge without realm"
    THEN Retrieved(FALSE, Raise("KeyError"), cache)
    ELSE IF service = Unreachable THEN Retrieved(TRUE, Raise("ConnectionError"), cache)
    ELSE IF IsError(service) THEN Retrieved(TRUE, Raise("HTTPError"), cache)
    ELSE IF service.body # "token" THEN Retrieved(TRUE, Raise("KeyError"), cache)
    ELSE Retrieved(TRUE, Return(Bearer \o <<" ">> \o NewToken),
                   Store(cache, CacheKey, Bearer \o <<" ">> \o NewToken))

\* A loop that asks for a token after the second 401 as well.
MayRetryTwice(n) == n <= 2

\* Line 331: and i <= 1
MayRetry(n) == n <= 1

\* Lines 339-341
tags_of(a) ==
    IF IsError(a) THEN Raise("HTTPError")
    ELSE IF a.body = "not json" THEN Raise("JSONDecodeError")
    ELSE IF a.body # "tags" THEN Raise("KeyError")
    ELSE Return(TagList)

\* What the call has done: a GET with its Authorization header, or a call
\* of retrieve_new_token.
Get(url, authorization) == [what |-> "GET", url |-> url, authorization |-> authorization]

AskedForToken == [what |-> "retrieve_new_token", url |-> "none", authorization |-> None]

RegistryInit ==
    /\ args = DefaultArgs
    /\ RunIdle
    /\ VersionIdle
    /\ RetryIdle
    /\ token_cache \in TokenCaches
    /\ registry \in [1..MaxRequests -> RegistryAnswers]
    /\ realm \in RealmAnswers
    /\ token = None
    /\ tries = 0
    /\ response = NoAnswer
    /\ log = <<>>
    /\ tag_list = Return(None)
    /\ qpc = "start"

\* Lines 320-323
GetToken ==
    /\ qpc = "start"
    /\ token' = get_or_retrieve_token(token_cache)
    /\ tries' = 0
    /\ qpc' = "get"
    /\ UNCHANGED <<args, runVars, versionVars, retryVars, token_cache, registry, realm,
                   response, log, tag_list>>

\* Lines 325-337, up to the call of retrieve_new_token: the GET, and what
\* the loop does with the answer.
GetTags ==
    /\ qpc = "get"
    /\ tries < MaxRequests
    /\ tries' = tries + 1
    /\ log' = Append(log, Get("registry", token))
    /\ LET r == registry[tries + 1]
       IN  IF r = Unreachable
           THEN /\ tag_list' = Raise("ConnectionError")
                /\ qpc' = "raised"
                /\ UNCHANGED response
           ELSE /\ response' = r
                /\ qpc' = IF r.status_code = 401 /\ MayRetry(tries + 1)
                             /\ r.www_authenticate # "absent"
                          THEN "token" ELSE "check"
                /\ UNCHANGED tag_list
    /\ UNCHANGED <<args, runVars, versionVars, retryVars, token_cache, registry, realm, token>>

\* Line 335: token = retrieve_new_token(api, name, headers['www-authenticate'])
RetrieveNewToken ==
    /\ qpc = "token"
    /\ LET t == retrieve_new_token(token_cache, response.www_authenticate, realm)
       IN  /\ log' = log \o <<AskedForToken>>
                         \o (IF t.requested THEN <<Get("realm", None)>> ELSE <<>>)
           /\ token_cache' = t.cache
           /\ IF t.token.exc
              THEN /\ tag_list' = t.token
                   /\ qpc' = "raised"
                   /\ UNCHANGED token
              ELSE /\ token' = t.token.ret
                   /\ qpc' = "get"
                   /\ UNCHANGED tag_list
    /\ UNCHANGED <<args, runVars, versionVars, retryVars, registry, realm, tries, response>>

\* Lines 339-341
ReturnTags ==
    /\ qpc = "check"
    /\ tag_list' = tags_of(response)
    /\ qpc' = IF tags_of(response).exc THEN "raised" ELSE "returned"
    /\ UNCHANGED <<args, runVars, versionVars, retryVars, token_cache, registry, realm, token,
                   tries, response, log>>

RegistryNext == GetToken \/ GetTags \/ RetrieveNewToken \/ ReturnTags

SpecRegistry == RegistryInit /\ [][RegistryNext]_vars

\* The interpreter goes on, and every request is answered or fails.
SpecRegistryFair == SpecRegistry /\ WF_vars(RegistryNext)

\* ------------------------------------------------------------ properties

Range(f) == {f[i] : i \in DOMAIN f}

\* The numeric components a version has, in order.
Components(v) ==
    <<v.major>>
    \o (IF Truthy(v.minor) THEN <<v.minor>> ELSE <<>>)
    \o (IF Truthy(v.patch) THEN <<v.patch>> ELSE <<>>)

\* One comparability class: the same rest and the same ce presence.
SameClass(a, b) == a.rest = b.rest /\ (Truthy(a.ce) <=> Truthy(b.ce))

\* Equal values at every component position both versions have.
TieOnShared(a, b) ==
    \A i \in DOMAIN Components(a) \cap DOMAIN Components(b) :
        int(Components(a)[i]) = int(Components(b)[i])

\* compare_version was called on two versions of one class.
ComparedInClass ==
    /\ vpc = "compared"
    /\ ~Absent(version)
    /\ ~Absent(other)
    /\ SameClass(version, other)

\* The accepted source tags that contribute the key k.
MembersOf(k) ==
    {i \in DOMAIN src_tags :
        \/ MajorKey(src_tags[i]) = k
        \/ (Truthy(src_tags[i].minor) /\ MinorKey(src_tags[i]) = k)}

\* The names the registry listed, and the map as a set of items.
ListedNames == {tags[i].name : i \in DOMAIN tags}

LatestItems == Range(src_tags_latest)

\* C1: once the floating-tag map is computed, the value of every key is the
\* str_version of a member of the key's group that compares greater than or
\* equal to every member of that group.
C1_ValueIsGroupMaximum ==
    pc = "read_dest" =>
        \A e \in LatestItems :
            \E i \in MembersOf(e.key) :
                /\ e.value = str_version(src_tags[i])
                /\ \A j \in MembersOf(e.key) :
                      /\ ~compare_version(src_tags[i], src_tags[j]).exc
                      /\ compare_version(src_tags[i], src_tags[j]).ret >= 0

\* A map is computed in which a group of three or more is won by a member
\* that is not the first one listed.
C1_Witness ==
    /\ pc = "read_dest"
    /\ \E e \in LatestItems :
          /\ Cardinality(MembersOf(e.key)) >= 3
          /\ e.value # str_version(src_tags[CHOOSE i \in MembersOf(e.key) :
                                              \A j \in MembersOf(e.key) : i <= j])

C2Tags ==
    {<<"1", "4", ".", "1", "0", ".", "2">>,
     <<"1", "4", ".", "1", "0", ".", "3">>,
     <<"1", "4", ".", "1", "1", ".", "1">>,
     <<"1", "3", ".", "1", "4", ".", "0">>}

C2Map ==
    {[key |-> <<"1", "4">>, value |-> <<"1", "4", ".", "1", "1", ".", "1">>],
     [key |-> <<"1", "3">>, value |-> <<"1", "3", ".", "1", "4", ".", "0">>],
     [key |-> <<"1", "4", ".", "1", "0">>, value |-> <<"1", "4", ".", "1", "0", ".", "3">>],
     [key |-> <<"1", "4", ".", "1", "1">>, value |-> <<"1", "4", ".", "1", "1", ".", "1">>],
     [key |-> <<"1", "3", ".", "1", "4">>, value |-> <<"1", "3", ".", "1", "4", ".", "0">>]}

C2Run == ListedNames = C2Tags /\ ~Truthy(args.filter)

\* C2: for the tags 14.10.2, 14.10.3, 14.11.1, 13.14.0 without a filter the
\* script computes the map {14: 14.11.1, 13: 13.14.0, 14.10: 14.10.3,
\* 14.11: 14.11.1, 13.14: 13.14.0}, with these five keys and no others.
C2_FiveKeys ==
    (C2Run /\ pc \in {"read_dest", "crashed"}) =>
        /\ pc = "read_dest"
        /\ LatestItems = C2Map
        /\ Len(src_tags_latest) = 5

C2_Witness == C2Run /\ pc = "read_dest" /\ Len(src_tags_latest) = 5

\* The versions parse_version makes of the texts.
Accepted == {parse_version(t) : t \in {x \in VersionTexts : FirstMatch(x) # 0}}

\* compare_version on every pair of them, computed once.
Verdict == [a \in Accepted |-> [b \in Accepted |-> compare_version(a, b)]]

\* C3: within one comparability class compare_version is a total order: it
\* returns 0 on identical versions, compare(b, a) is the negation of
\* compare(a, b), and it is transitive over every third version of the class.
C3_TotalOrderInClass ==
    ComparedInClass =>
        /\ result = Verdict[version][other]
        /\ ~result.exc
        /\ result.ret \in {-1, 0, 1}
        /\ (version = other => result.ret = 0)
        /\ Verdict[other][version] = Return(0 - result.ret)
        /\ \A c \in Accepted :
              SameClass(other, c) =>
                  /\ (result.ret >= 0 /\ Verdict[other][c].ret >= 0)
                        => Verdict[version][c].ret >= 0
                  /\ (result.ret > 0 /\ Verdict[other][c].ret >= 0)
                        => Verdict[version][c].ret > 0
                  /\ (result.ret >= 0 /\ Verdict[other][c].ret > 0)
                        => Verdict[version][c].ret > 0

\* A chain of three versions of one class: version > other > a third one.
C3_Witness ==
    /\ ComparedInClass
    /\ result = Return(1)
    /\ \E c \in ParsedTexts :
          /\ ~Absent(c)
          /\ SameClass(other, c)
          /\ compare_version(other, c) = Return(1)
          /\ Len(Components(c)) # Len(Components(version))

\* C4: the str_version of an accepted version is accepted by parse_version
\* again and gives a version identical in every field.
C4_RoundTrip ==
    vpc = "reparsed" =>
        /\ ~Absent(reparsed)
        /\ reparsed = version
        /\ \A f \in {"major", "minor", "patch", "rc", "ce", "rest"} :
              reparsed[f] = version[f]

\* A version with all six fields set went through the round trip.
C4_Witness ==
    /\ vpc = "reparsed"
    /\ \A f \in {"major", "minor", "patch", "rc", "ce", "rest"} : Truthy(version[f])

C6_LongerRanksGreaterWhenInverse ==
    (ComparedInClass /\ args.inverse_specificity_order /\ TieOnShared(version, other)) =>
        /\ Len(Components(version)) > Len(Components(other)) => result = Return(1)
        /\ Len(Components(version)) < Len(Components(other)) => result = Return(-1)

\* C7: of two comparable versions with identical components the one
\* without an rc compares greater than any release candidate, and of two
\* release candidates the one with the higher rc number compares greater.
C7_FinalOutranksCandidate ==
    (ComparedInClass /\ Components(version) = Components(other)) =>
        /\ (~Truthy(version.rc) /\ Truthy(other.rc)) => result = Return(1)
        /\ (Truthy(version.rc) /\ ~Truthy(other.rc)) => result = Return(-1)
        /\ (Truthy(version.rc) /\ Truthy(other.rc) /\ int(version.rc) > int(other.rc))
              => result = Return(1)
        /\ (Truthy(version.rc) /\ Truthy(other.rc) /\ int(version.rc) < int(other.rc))
              => result = Return(-1)

\* A final release with a low ce number met a candidate with a higher one,
\* whose rc number has two digits.
C7_Witness ==
    /\ ComparedInClass
    /\ Components(version) = Components(other)
    /\ ~Truthy(version.rc)
    /\ Truthy(other.rc)
    /\ Truthy(version.ce)
    /\ int(version.ce) < int(other.ce)
    /\ Len(other.rc) = 2

C8Tags ==
    {<<"1", "4", ".", "1", "0", ".", "0">>,
     <<"1", "4", ".", "1", "0", ".", "1", "-", "r", "c", "1">>,
     <<"1", "4", ".", "1", "0", ".", "1", "-", "r", "c", "2">>,
     <<"1", "4", ".", "1", "0", ".", "1">>}

C8Map ==
    {[key |-> <<"1", "4">>, value |-> <<"1", "4", ".", "1", "0", ".", "1">>],
     [key |-> <<"1", "4", ".", "1", "0">>, value |-> <<"1", "4", ".", "1", "0", ".", "1">>]}

C8Run == ListedNames = C8Tags /\ ~Truthy(args.filter)

\* r is a release candidate and f its final release: the same components,
\* rest and ce presence, and no rc.
FinalOf(r, f) ==
    /\ Truthy(r.rc)
    /\ ~Truthy(f.rc)
    /\ Components(r) = Components(f)
    /\ SameClass(r, f)

\* C8: a release candidate and its final release are in the same groups,
\* so no key of the computed map maps to a release candidate whose final
\* release is accepted too; 14.10.0, 14.10.1-rc1, 14.10.1-rc2, 14.10.1 give
\* {14: 14.10.1, 14.10: 14.10.1}.
C8_CandidateNeverBeatsItsFinal ==
    /\ pc \in {"latest", "read_dest", "crashed"} =>
          \A r, f \in Range(src_tags) :
              FinalOf(r, f) =>
                  \A g \in Range(src_tags_grouped) :
                      r \in Range(g.value) <=> f \in Range(g.value)
    /\ pc = "read_dest" =>
          \A r, f \in Range(src_tags) :
              FinalOf(r, f) => \A e \in LatestItems : e.value # str_version(r)
    /\ (C8Run /\ pc \in {"read_dest", "crashed"}) =>
          (pc = "read_dest" /\ LatestItems = C8Map /\ Len(src_tags_latest) = 2)

\* The map of the four tags is computed, the final release listed last.
C8_Witness ==
    /\ C8Run
    /\ pc = "read_dest"
    /\ Len(src_tags) = 4
    /\ FinalOf(src_tags[2], src_tags[4])
    /\ FinalOf(src_tags[3], src_tags[4])

\* C9: compare_version on two versions whose rest differs, or of which
\* exactly one has a ce number, raises and returns no ordering.
C9_IncomparableRaises ==
    (vpc = "compared" /\ ~Absent(version) /\ ~Absent(other)
        /\ ~SameClass(version, other)) => result = Raise(0)

\* Two versions that differ in ce presence only were compared.
C9_Witness ==
    /\ vpc = "compared"
    /\ result.exc
    /\ version.rest = other.rest
    /\ Components(version) = Components(other)
    /\ version.rc = other.rc
    /\ Truthy(version.ce)
    /\ ~Truthy(other.ce)

\* C10: the versions that share a key are of one comparability class, and
\* computing the floating-tag map never raises.
C10_KeysNeverCollideAcrossClasses ==
    pc \in {"read_dest", "crashed"} =>
        /\ \A g \in Range(src_tags_grouped) :
              \A a, b \in Range(g.value) : SameClass(a, b)
        /\ pc # "crashed"
        /\ exception = ""

\* The groups of src_tags_grouped that the version v is a member of.
GroupsOf(v) == {g \in Range(src_tags_grouped) : v \in Range(g.value)}

\* C11: once the tags are grouped, every accepted version with n numeric
\* components is a member of exactly n groups, one for each truncation
\* length 1..n, the full length included.
C11_OneGroupPerTruncation ==
    pc \notin {"read_source", "group"} =>
        \A v \in Range(src_tags) : Cardinality(GroupsOf(v)) = Len(Components(v))

\* The modifier block with the ce marker before the rc marker.
CeBeforeRc == <<"-", "c", "e", ".", "2", ".", "r", "c", "2">>

RECURSIVE JoinDots(_)
\* The components joined with dots.
JoinDots(cs) ==
    IF Len(cs) = 1 THEN cs[1] ELSE cs[1] \o <<".">> \o JoinDots(Tail(cs))

\* parse_version was called on a numeric core of n components, followed by
\* a modifier block in grammar order and a rest.
ParsedCore(c) ==
    /\ vpc = "parsed"
    /\ \E m \in ModifierTexts \ {CeBeforeRc}, r \in RestTexts : text = c \o m \o r

\* C12: parse_version accepts a version with any number of dot-separated
\* numeric components, four included, also with an rc, ce or rest part,
\* and returns all its components in order.
C12_AnyNumberOfComponents ==
    \A n \in 1..MaxComponents :
        \A c \in Cores(n) :
            ParsedCore(c) =>
                /\ ~Absent(version)
                /\ JoinDots(Components(version)) = c

StartsWith(s, p) == Len(p) <= Len(s) /\ SubSeq(s, 1, Len(p)) = p

EndsWith(s, p) == Len(p) <= Len(s) /\ SubSeq(s, Len(s) - Len(p) + 1, Len(s)) = p

\* The names of the source's answer, kept when tags is bound anew.
SourceNames == Keys(src_tags_digests)

C13Tags ==
    {<<"v", "1", "4", ".", "1", "0", ".", "2">> \o Alpine,
     <<"v", "1", "4", ".", "1", "0", ".", "3">> \o Alpine}

C13Map ==
    {[key |-> <<"v", "1", "4">> \o Alpine,
      value |-> <<"v", "1", "4", ".", "1", "0", ".", "3">> \o Alpine],
     [key |-> <<"v", "1", "4", ".", "1", "0">> \o Alpine,
      value |-> <<"v", "1", "4", ".", "1", "0", ".", "3">> \o Alpine]}

\* The run is configured with the prefix v and the suffix -alpine.
C13Configured == args.prefix = <<"v">> /\ args.suffix = Alpine

\* C13: with a prefix and a suffix configured, only tags that start with
\* the prefix and end with the suffix are accepted, and the keys and values
\* of the map carry both: with prefix v and suffix -alpine the tags
\* v14.10.2-alpine, v14.10.3-alpine give {v14-alpine: v14.10.3-alpine,
\* v14.10-alpine: v14.10.3-alpine}.
C13_PrefixAndSuffix ==
    (C13Configured /\ pc \notin {"read_source", "group", "latest"}) =>
        /\ \A v \in Range(src_tags) :
              /\ StartsWith(str_version(v), args.prefix)
              /\ EndsWith(str_version(v), args.suffix)
        /\ SourceNames = C13Tags => LatestItems = C13Map

\* parse_version was called on a numeric core followed by the ce marker,
\* then the rc marker.
ParsedCeBeforeRc ==
    /\ vpc = "parsed"
    /\ \E n \in 1..MaxComponents : \E c \in Cores(n), r \in RestTexts :
          text = c \o CeBeforeRc \o r

\* C14: parse_version returns None for a text whose modifier block has the
\* ce marker before the rc marker; the block is not read as rest either.
C14_CeBeforeRcRejected == ParsedCeBeforeRc => Absent(version)

\* Listed names that are no versions: latest, and v-prefixed names.
NonVersionTags == C13Tags \cup {<<"l", "a", "t", "e", "s", "t">>}

\* The source's answer without the names that are no versions.
VersionDigests == SelectSeq(src_tags_digests, LAMBDA e : e.key \notin NonVersionTags)

\* What lines 387-399 make of the answer without those names.
VersionTags == accepted_tags(VersionDigests, args.filter)

VersionLatest == latest_versions(group_versions(VersionTags))

Unmatched == {n \in SourceNames : ~Search(args.filter, n)}

\* The source's answer without those names.
MatchedDigests == SelectSeq(src_tags_digests, LAMBDA e : Search(args.filter, e.key))

\* What lines 387-399 make, without a filter, of the answer without them.
MatchedLatest == latest_versions(group_versions(accepted_tags(MatchedDigests, None)))

\* C16: with a filter configured, a listed tag that the filter does not
\* match is no value of the map and no source of a copy, and the map (or
\* the exception that ends the run) is that of the answer without it.
C16_UnmatchedTagsHaveNoEffect ==
    Truthy(args.filter) =>
        /\ \A e \in LatestItems : e.value \notin Unmatched
        /\ \A c \in Range(copies) : c.src \notin Unmatched
        /\ pc = "read_dest" => src_tags_latest = StrAll(MatchedLatest)
        /\ pc = "crashed" => Raised(MatchedLatest)

\* A filtered run started a copy, and a tag the filter does not match
\* outranks the winner of its major key.
C16_Witness ==
    /\ Truthy(args.filter)
    /\ pc = "copy"
    /\ copies # <<>>
    /\ \E n \in Unmatched : \E e \in LatestItems :
          /\ ~Absent(parse_version(n))
          /\ e.key = MajorKey(parse_version(n))
          /\ ~compare_version(parse_version(n), parse_version(e.value)).exc
          /\ compare_version(parse_version(n), parse_version(e.value)).ret > 0

\* The lines that the script printed for the map: one per key.
PrintedMap ==
    {[key |-> stdout[i].key, value |-> stdout[i].value] :
        i \in {j \in DOMAIN stdout : stdout[j].line = "- key -> value"}}

\* C17: in dry-run mode no copy command is ever issued, whatever the
\* digests, and a finished run has printed the whole map.
C17_DryRunNeverCopies ==
    args.dry_run =>
        /\ copies = <<>>
        /\ pc = "done" => PrintedMap = LatestItems

\* C18: with --no-copy no copy command is issued, for a version tag or for
\* a key of the map, and a finished run has printed the whole map.
C18_NoCopyIssuesNoCopy ==
    args.no_copy =>
        /\ copies = <<>>
        /\ pc = "done" =>
              /\ stdout = print_tags(src_tags_latest_sorted, src_tags_latest)
              /\ PrintedMap = LatestItems

\* A run with --no-copy finished although the destination lacks or differs
\* in a version tag and in a key of a non-empty map.
C18_Witness ==
    /\ args.no_copy
    /\ pc = "done"
    /\ \E e \in LatestItems :
          /\ DigestsAt(src_tags_digests, e.value) # DigestsAt(dest_tags_digests, e.key)
          /\ DigestsAt(src_tags_digests, e.value) # DigestsAt(dest_tags_digests, e.value)

\* The calls of mirror_image_tag that the first loop makes without
\* --only-new-tags, in order: source tag and destination tag.
ExistingCalls ==
    [i \in DOMAIN src_tags_sorted |->
        [src |-> str_version(src_tags_sorted[i]), dest |-> str_version(src_tags_sorted[i])]]

\* The calls that the second loop makes.
LatestCalls ==
    [i \in DOMAIN src_tags_latest_sorted |->
        [src |-> Lookup(src_tags_latest, src_tags_latest_sorted[i]),
         dest |-> src_tags_latest_sorted[i]]]

\* The destination tag of the call does not exist, or its digests are not
\* the source tag's.
Differing(c) ==
    DigestsAt(src_tags_digests, c.src) # DigestsAt(dest_tags_digests, c.dest)

\* The destination tag of the call is none of the destination's version tags.
New(c) == c.dest \notin Range(dest_tags)

\* The copies of a finished run in which every command exits with 0 and is
\* run once: the differing calls, with --only-new-tags the new ones of them.
DueCopies ==
    IF args.only_new_tags
    THEN SelectSeq(SelectSeq(ExistingCalls \o LatestCalls, New), Differing)
    ELSE SelectSeq(ExistingCalls \o LatestCalls, Differing)

\* The copy commands started so far are the first of the due ones.
CopiesAsDue ==
    /\ Len(copies) <= Len(DueCopies)
    /\ copies = SubSeq(DueCopies, 1, Len(copies))

\* The script is past the sorting, in a run that copies.
InCopyLoops == pc \in {"mirror", "mirror_latest", "copy", "done"} /\ ~args.no_copy

\* C19: with --only-new-tags no copy is issued to a destination tag that
\* is among the destination's version tags, for a version tag or for a key
\* of the map, and the tags and keys that the destination does not list
\* are copied, each once and in turn, all of them by the end of the run.
C19_OnlyNewTagsSkipsExisting ==
    (args.only_new_tags /\ InCopyLoops) =>
        /\ \A c \in Range(copies) : c.dest \notin Range(dest_tags)
        /\ CopiesAsDue
        /\ pc = "done" => copies = DueCopies

\* C20: every call of mirror_image_tag issues one copy from its source tag
\* to its destination tag if the destination tag does not exist or its
\* digests differ from the source tag's, and none if they are equal.
C20_OneCopyPerDifferingTag ==
    (~args.only_new_tags /\ InCopyLoops) =>
        /\ CopiesAsDue
        /\ pc = "done" => copies = DueCopies

\* The version without its rc and ce numbers.
StripModifiers(v) == [v EXCEPT !.rc = None, !.ce = None]

\* compare_version was called on two versions of one class that tie on
\* every shared component position and differ in the number of components.
ComparedLengths ==
    /\ ComparedInClass
    /\ TieOnShared(version, other)
    /\ Len(Components(version)) # Len(Components(other))

\* C21: when two comparable versions tie on every component position both
\* have and differ in the number of components, the result of
\* compare_version is the one the versions give without their rc and ce
\* numbers, and it is not 0.
C21_LengthDecidesBeforeRcAndCe ==
    ComparedLengths =>
        /\ result = compare_version(StripModifiers(version), StripModifiers(other))
        /\ ~result.exc
        /\ result.ret # 0

\* The release candidate 1.10-rc2 was compared with the final release
\* 1.10.2 and ranked greater.
C21_Witness ==
    /\ ComparedLengths
    /\ Len(Components(version)) = 2
    /\ Len(Components(other)) = 3
    /\ Truthy(version.rc)
    /\ ~Truthy(other.rc)
    /\ result = Return(1)

\* What line 399 makes of a group of the two versions, in the given order.
LatestOfPair(a, b) == str_version(max_version(<<a, b>>).ret)

\* C22: compare_version returns 0 for two versions of one class only if
\* str_version gives the same text for both, so a group of the two has the
\* same value in the map whichever of them max_version sees first.
C22_EqualOnlyIfSameText ==
    (ComparedInClass /\ result = Return(0)) =>
        /\ str_version(version) = str_version(other)
        /\ LatestOfPair(version, other) = LatestOfPair(other, version)

\* Two versions with three components, an rc and a ce number compared equal.
C22_Witness ==
    /\ ComparedInClass
    /\ result = Return(0)
    /\ Len(Components(version)) = 3
    /\ Truthy(version.rc)
    /\ Truthy(version.ce)
    /\ Truthy(other.rc)

\* What parse_version returned for the accepted names, in listing order.
ParsedTags == ParseAll(accepted_names(src_tags_digests, args.filter))

\* C23: the versions are never changed after parse_version returned them:
\* the members of the groups are the accepted versions; after the sorting
\* src_tags still holds the versions that were grouped, and
\* src_tags_sorted holds the same versions in another order, each with its
\* parsed rest and ce and with a listed tag as its text; and at the end
\* of a run src_tags is what parse_version returned for the accepted names.
C23_VersionsNeverChange ==
    /\ pc = "latest" =>
          \A g \in Range(src_tags_grouped) : Range(g.value) \subseteq Range(src_tags)
    /\ pc \in {"mirror", "mirror_latest", "done"} =>
          /\ Range(src_tags) = UNION {Range(g.value) : g \in Range(src_tags_grouped)}
          /\ Len(src_tags_sorted) = Len(src_tags)
          /\ Range(src_tags_sorted) = Range(src_tags)
          /\ \A v \in Range(src_tags_sorted) : str_version(v) \in SourceNames
    /\ pc = "done" => src_tags = ParsedTags

\* A run finished whose sorting moved a version; one of the versions has a
\* rest and no ce number, the two fields that prepare_for_sort writes.
C23_Witness ==
    /\ pc = "done"
    /\ src_tags_sorted # src_tags
    /\ \E v \in Range(src_tags_sorted) : Truthy(v.rest) /\ ~Truthy(v.ce)
    /\ \E v \in Range(src_tags_sorted) : Truthy(v.ce)

\* The most recent call of func.
LastCall == calls[Len(calls)]

Failure(o) == o.exc /\ o.ret.type # "KeyboardInterrupt"

\* C24: if the command run by execWithRetry exits with code 0,
\* execWithRetry has run it exactly once and has returned its result.
C24_SuccessfulCommandRunsOnce ==
    (callable = "exec" /\ calls # <<>> /\ behaviour[1].exit_code = 0) =>
        /\ Len(calls) = 1
        /\ rpc = "returned"
        /\ returned = Return(<<0, behaviour[1].std_out, behaviour[1].std_err>>)

\* func succeeds at some call, all calls before it having failed.
Succeeds ==
    \E i \in DOMAIN behaviour :
        /\ ~Outcome(callable, behaviour[i]).exc
        /\ \A j \in 1..(i - 1) : Failure(Outcome(callable, behaviour[j]))

AlwaysFails == \A i \in DOMAIN behaviour : Failure(Outcome(callable, behaviour[i]))

\* What withRetry has done so far is what the claim allows.
RetriedAsClaimed ==
    /\ \A i \in 1..(Len(calls) - 1) : Failure(calls[i])
    /\ rpc = "returned" => ~LastCall.exc /\ returned = LastCall
    /\ rpc = "raised" => LastCall.exc /\ ~Failure(LastCall) /\ returned = LastCall
    /\ (calls # <<>> /\ ~LastCall.exc) => rpc = "returned"
    /\ (calls # <<>> /\ LastCall.exc /\ ~Failure(LastCall)) => rpc = "raised"
    /\ (calls # <<>> /\ Failure(LastCall)) => (rpc \in {"sleep", "call"} /\ Len(slept) = Len(calls))
    /\ AlwaysFails => rpc \in {"sleep", "call"}

\* C25: withRetry returns the result of the first call of func that
\* succeeds, sleeps and calls func again after every failure other than
\* KeyboardInterrupt and never raises such a failure, and raises
\* KeyboardInterrupt at once; if func succeeds after finitely many such
\* failures withRetry eventually returns, and if func always fails it
\* never returns.
C25_RetriesUntilSuccess ==
    /\ []RetriedAsClaimed
    /\ Succeeds ~> (rpc = "returned")
    /\ \A n \in 1..MaxCalls :
          (Len(calls) = n /\ Failure(LastCall) /\ n < Len(behaviour)) ~> (Len(calls) > n)

\* withRetry has returned after a failure with the rate limit and one
\* without it, each slept on for its own time.
C25_Witness ==
    /\ rpc = "returned"
    /\ callable = "func"
    /\ slept = <<RateLimitSleep, FailedSleep>>
    /\ Len(calls) = 3

\* The places in the log of the GET requests sent to the registry.
RegistryGets == {n \in DOMAIN log : log[n] = Get("registry", log[n].authorization)}

Ended == qpc \in {"returned", "raised"}

AtMostTwoGets ==
    /\ Cardinality(RegistryGets) <= 2
    /\ Cardinality(RegistryGets) = tries
    /\ \A n \in RegistryGets :
          n > 1 =>
            /\ registry[1].status_code = 401
            /\ registry[1].www_authenticate # "absent"
            /\ log[1] \in {Get("registry", None), Get("registry", CachedToken)}
            /\ log[2] = AskedForToken
            /\ n = Len(log)
            /\ log[n].authorization = token
    /\ qpc = "token" => tries = 1
    /\ (tries = 2 /\ response.status_code = 401) => qpc \in {"check", "raised"}
    /\ qpc = "returned" => (tag_list = Return(TagList) /\ response.status_code = 200)
    /\ qpc = "raised" => tag_list.exc

\* C26: request_docker_registry sends at most two GET requests to the
\* registry, the second only after the first was answered 401 with a
\* WWW-Authenticate header and retrieve_new_token was called; a second
\* 401 is not retried; and the call ends, returning the tag list or
\* raising.
C26_AtMostTwoRequests == []AtMostTwoGets /\ <>Ended

\* The registry answered 401 twice, the second time to the new token, and
\* the call raised.
C26_Witness ==
    /\ qpc = "raised"
    /\ tries = 2
    /\ response.status_code = 401
    /\ log = <<Get("registry", None), AskedForToken, Get("realm", None),
               Get("registry", Bearer \o <<" ">> \o NewToken)>>
    /\ tag_list = Raise("HTTPError")

\* The names of the accepted tags in the order of the first copy loop.
SortedNames == [n \in DOMAIN src_tags_sorted |-> str_version(src_tags_sorted[n])]

\* The list without what --only-new-tags leaves alone.
NotSkipped(names) ==
    SelectSeq(names, LAMBDA t : ~skip_existing(args.only_new_tags, t, dest_tags))

\* The destination tags that mirror_image_tag has printed, in order.
MirrorLines == SelectSeq(stdout, LAMBDA l : l.line \in {"up to date", "copy"})

MirroredTags == [n \in DOMAIN MirrorLines |-> MirrorLines[n].key]

IsPrefix(p, q) == Len(p) <= Len(q) /\ SubSeq(q, 1, Len(p)) = p

Ascending(ts) ==
    \A m, n \in DOMAIN ts :
        m < n => LET c == compare_version(prepare_for_sort(ts[m]), prepare_for_sort(ts[n]))
                 IN  ~c.exc /\ c.ret <= 0

InLatestLoop == pc = "mirror_latest" \/ (pc = "copy" /\ loop = "mirror_latest")

\* C27: the accepted tags are sorted ascending, mirror_image_tag is called
\* for them in that order, and a floating tag is mirrored only after it
\* has been called for every accepted tag that is not skipped.
C27_ConcreteBeforeFloating ==
    /\ pc = "mirror" => Ascending(src_tags_sorted)
    /\ (pc = "mirror" \/ (pc = "copy" /\ loop = "mirror")) =>
          IsPrefix(MirroredTags, NotSkipped(SortedNames))
    /\ (InLatestLoop \/ (pc = "done" /\ copying(args))) =>
          /\ IsPrefix(NotSkipped(SortedNames), MirroredTags)
          /\ IsPrefix(SubSeq(MirroredTags, Len(NotSkipped(SortedNames)) + 1, Len(MirroredTags)),
                      NotSkipped(src_tags_latest_sorted))
    /\ \A n \in DOMAIN copies :
          copies[n].dest \notin Range(SortedNames) => InLatestLoop

\* The copy of a floating tag is running, after two or more accepted tags
\* that the registry did not list in ascending order were found up to date.
C27_Witness ==
    /\ pc = "copy"
    /\ loop = "mirror_latest"
    /\ copies # <<>>
    /\ Len(NotSkipped(SortedNames)) >= 2
    /\ src_tags_sorted # src_tags

\* The floating keys as line 480 parses and prepares them.
ParsedKeys == {parse_version(k) : k \in Keys(src_tags_latest)}

NeverRaises(versions) ==
    \A v, w \in versions : ~compare_version(prepare_for_sort(v), prepare_for_sort(w)).exc

\* C28: of the accepted tags and the floating-tag map that the two sorts
\* are given, every key is a version for parse_version, and no two tags
\* and no two keys make the comparator of the sorts raise.
C28_SortingNeverRaises ==
    pc = "read_dest" =>
        /\ \A k \in ParsedKeys : ~Absent(k)
        /\ NeverRaises(Range(src_tags))
        /\ NeverRaises(ParsedKeys)

\* Both lists are sorted, of accepted tags some of which differ in their
\* rest and some in having a ce.
C28_Witness ==
    /\ pc = "mirror"
    /\ Len(src_tags_sorted) = Len(src_tags)
    /\ \E v, w \in Range(src_tags) : v.rest # w.rest
    /\ \E v, w \in Range(src_tags) : Truthy(v.ce) /\ ~Truthy(w.ce)
    /\ \E v, w \in ParsedKeys : compare_version(v, w).exc

\* The names the source registry listed with one digest or more.
Digested == {e.key : e \in {d \in Range(src_tags_digests) : Len(d.value) > 0}}

\* The tags handed to mirror_image_tag as its source: the accepted tags
\* (line 490) and the values of the map (line 494).
MirrorSources == Range(SortedNames) \cup {e.value : e \in Range(src_tags_latest)}

\* C29: once the lists of the copy loops are made, every tag that the
\* loops hand to mirror_image_tag as its source is a name the source
\* registry listed with a digest, and the lookup of line 455 raises no
\* KeyError.
C29_SourcesAreListed ==
    /\ pc \in {"mirror", "mirror_latest", "copy", "done"} => MirrorSources \subseteq Digested
    /\ command # NoCommand => command.src \in Digested
    /\ exception # "KeyError"

\* mirror_image_tag has looked up its source and started its copy, in a
\* run whose registry listed a version without any digest.
C29_Witness ==
    /\ pc = "copy"
    /\ copies # <<>>
    /\ \E e \in Range(src_tags_digests) : e.value = <<>> /\ ~Absent(parse_version(e.key))

\* The list with its first two items exchanged, and with its first item
\* moved to the end: every order of a list is reached by these two.
Swapped(l) == IF Len(l) < 2 THEN l ELSE <<l[2], l[1]>> \o SubSeq(l, 3, Len(l))

Rotated(l) == IF l = <<>> THEN l ELSE Tail(l) \o <<Head(l)>>

\* What lines 393-399 make of the accepted tags: the items of the map, or
\* the exception of compare_version.
MapOf(ts) ==
    LET latest == latest_versions(group_versions(ts))
    IN  IF Raised(latest) THEN [raised |-> TRUE, items |-> {}]
        ELSE [raised |-> FALSE, items |-> Range(StrAll(latest))]

\* What the run made of them.
MapOfRun ==
    IF pc = "crashed" THEN [raised |-> TRUE, items |-> {}]
    ELSE [raised |-> FALSE, items |-> Range(src_tags_latest)]

\* C30: the accepted tags in another order yield the same items of the
\* floating-tag map, or the same exception.
C30_ListingOrderIsIrrelevant ==
    pc \in {"read_dest", "crashed"} =>
        /\ MapOf(Swapped(src_tags)) = MapOfRun
        /\ MapOf(Rotated(src_tags)) = MapOfRun

\* The map is computed from a group of three or more tags whose greatest
\* the registry listed neither first nor last.
C30_Witness ==
    /\ pc = "read_dest"
    /\ \E g \in Range(src_tags_grouped) :
          /\ Len(g.value) >= 3
          /\ \E n \in 2..(Len(g.value) - 1) :
                /\ [key |-> g.key, value |-> str_version(g.value[n])] \in Range(src_tags_latest)
                /\ str_version(g.value[n]) # str_version(g.value[1])
                /\ str_version(g.value[n]) # str_version(g.value[Len(g.value)])

====
